---- MODULE Spec2Model ----
(***************************************************************************)
(* Model of the WebGPU grid demo (src/vite.config.ts, lines 24-211): the   *)
(* App component, its one-time asynchronous setup, the timer callback, the *)
(* reset click handler, the draw effect keyed on gridSize, and draw().     *)
(*                                                                         *)
(* The host serialises everything on one thread.  A handler that calls     *)
(* setGridSize is modelled together with the re-render it causes; the      *)
(* effect that the re-render schedules is a separate step, which the host  *)
(* runs before it processes the next state update.  The two awaits of      *)
(* setup() are the places where other steps interleave with it.            *)
(***************************************************************************)
EXTENDS Integers, Sequences, FiniteSets, TLC

VARIABLES
    gridSize,          \* useState value (line 90)
    effectPending,     \* effects of the last committed render not yet run
    timerActive,       \* the interval registered by useInterval is live
    setupPc,           \* position of setup(): notStarted, awaitAdapter,
                       \*   awaitDevice, done, aborted
    deviceRef,         \* lines 84-88: the five refs read by the draw effect
    contextRef,
    pipelineRef,
    vertexBufferRef,
    verticesRef,
    gpuVertexBuffer,   \* contents of the device buffer 'Cell vertices'
    vbWrites,          \* number of queue.writeBuffer calls on that buffer
    lastDraw,          \* what the last draw() submitted
    drawsSinceChange,  \* draws issued since gridSize last changed
    changeSawSetup,    \* setup had completed when gridSize last changed
    lastOp,            \* last handler/effect: none, tick, reset, draw, skip
    prevSize           \* gridSize seen by the last tick or reset

vars == <<gridSize, effectPending, timerActive, setupPc, deviceRef, contextRef,
          pipelineRef, vertexBufferRef, verticesRef, gpuVertexBuffer, vbWrites,
          lastDraw, drawsSinceChange, changeSawSetup, lastOp, prevSize>>

refVars == <<deviceRef, contextRef, pipelineRef, vertexBufferRef, verticesRef>>
gpuVars == <<gpuVertexBuffer, vbWrites>>

(***************************************************************************)
(* Program constants.                                                      *)
(***************************************************************************)
InitialGridSize == 4
ResetSizeInitial == InitialGridSize
ResetSize == 2
CapExponent == 9
MantissaBits == 23
ExponentBias == 127

Undefined == "undefined"

RECURSIVE Pow2(_)
Pow2(n) == IF n <= 0 THEN 1 ELSE 2 * Pow2(n - 1)

MaxGridSize == Pow2(CapExponent)

Min(a, b) == IF a <= b THEN a ELSE b

\* The quad of lines 113-117, in tenths.
QuadVertices == <<-8, -8, 8, -8, 8, 8, -8, -8, 8, 8, -8, 8>>

(***************************************************************************)
(* Float32Array element conversion (line 40): a non-negative integer is    *)
(* stored as an IEEE-754 binary32 bit pattern, rounded to 24 significant   *)
(* bits (round to nearest, ties to even).                                  *)
(***************************************************************************)
RECURSIVE Log2Floor(_)
Log2Floor(n) == IF n <= 1 THEN 0 ELSE 1 + Log2Floor(n \div 2)

ToFloat32Bits(n) ==
    IF n = 0 THEN 0
    ELSE LET e == Log2Floor(n)
         IN  IF e <= MantissaBits
             THEN (e + ExponentBias) * Pow2(MantissaBits)
                    + (n - Pow2(e)) * Pow2(MantissaBits - e)
             ELSE LET ulp  == Pow2(e - MantissaBits)
                      q    == n \div ulp
                      r    == n % ulp
                      up   == (2 * r > ulp) \/ (2 * r = ulp /\ q % 2 = 1)
                      sig  == IF up THEN q + 1 ELSE q
                  IN  IF sig = Pow2(MantissaBits + 1)
                      THEN (e + 1 + ExponentBias) * Pow2(MantissaBits)
                      ELSE (e + ExponentBias) * Pow2(MantissaBits)
                             + (sig - Pow2(MantissaBits))

\* Reading an element back from the bit pattern.
FromFloat32Bits(b) ==
    IF b = 0 THEN 0
    ELSE LET e   == (b \div Pow2(MantissaBits)) - ExponentBias
             sig == Pow2(MantissaBits) + (b % Pow2(MantissaBits))
         IN  IF e <= MantissaBits
             THEN sig \div Pow2(MantissaBits - e)
             ELSE sig * Pow2(e - MantissaBits)

NoDraw == [GRID_SIZE |-> 0, vertexCount |-> 0, instanceCount |-> 0,
           uniformBuffer |-> <<>>, vertexBuffer |-> <<>>]

(***************************************************************************)
(* draw(), lines 31-80.  It has no await, so it runs to completion inside  *)
(* the effect that calls it.                                               *)
(***************************************************************************)
drawSwappedCounts(device, context, pipeline, vertexBuffer, vertices, GRID_SIZE) ==
    LET uniformArray == <<ToFloat32Bits(GRID_SIZE), ToFloat32Bits(GRID_SIZE)>>
    IN  /\ lastDraw' = [GRID_SIZE     |-> GRID_SIZE,
                        vertexCount   |-> GRID_SIZE * GRID_SIZE,
                        instanceCount |-> Len(vertices) \div 2,
                        uniformBuffer |-> uniformArray,
                        vertexBuffer  |-> vertexBuffer]
        /\ drawsSinceChange' = drawsSinceChange + 1
        /\ UNCHANGED gpuVars

drawReuploadsVertices(device, context, pipeline, vertexBuffer, vertices, GRID_SIZE) ==
    LET uniformArray == <<ToFloat32Bits(GRID_SIZE), ToFloat32Bits(GRID_SIZE)>>
    IN  /\ lastDraw' = [GRID_SIZE     |-> GRID_SIZE,
                        vertexCount   |-> Len(vertices) \div 2,
                        instanceCount |-> GRID_SIZE * GRID_SIZE,
                        uniformBuffer |-> uniformArray,
                        vertexBuffer  |-> vertexBuffer]
        /\ drawsSinceChange' = drawsSinceChange + 1
        /\ gpuVertexBuffer' = vertices
        /\ vbWrites' = vbWrites + 1

drawHeightOffByOne(device, context, pipeline, vertexBuffer, vertices, GRID_SIZE) ==
    LET uniformArray == <<ToFloat32Bits(GRID_SIZE), ToFloat32Bits(GRID_SIZE + 1)>>
    IN  /\ lastDraw' = [GRID_SIZE     |-> GRID_SIZE,
                        vertexCount   |-> Len(vertices) \div 2,
                        instanceCount |-> GRID_SIZE * GRID_SIZE,
                        uniformBuffer |-> uniformArray,
                        vertexBuffer  |-> vertexBuffer]
        /\ drawsSinceChange' = drawsSinceChange + 1
        /\ UNCHANGED gpuVars

draw(device, context, pipeline, vertexBuffer, vertices, GRID_SIZE) ==
    LET uniformArray == <<ToFloat32Bits(GRID_SIZE), ToFloat32Bits(GRID_SIZE)>>
    IN  /\ lastDraw' = [GRID_SIZE     |-> GRID_SIZE,
                        vertexCount   |-> Len(vertices) \div 2,
                        instanceCount |-> GRID_SIZE * GRID_SIZE,
                        uniformBuffer |-> uniformArray,
                        vertexBuffer  |-> vertexBuffer]
        /\ drawsSinceChange' = drawsSinceChange + 1
        /\ UNCHANGED gpuVars

(***************************************************************************)
(* The guard of the draw effect, lines 175-182.                            *)
(***************************************************************************)
ReadyAlways == TRUE

ReadyDeviceOnly ==
    deviceRef # Undefined

ReadyToDraw ==
    /\ deviceRef # Undefined
    /\ contextRef # Undefined
    /\ pipelineRef # Undefined
    /\ vertexBufferRef # Undefined
    /\ verticesRef # Undefined

DrawEffectBodyStale ==
    /\ effectPending' = FALSE
    /\ IF ~ReadyToDraw
       THEN /\ lastOp' = "skip"
            /\ UNCHANGED <<lastDraw, drawsSinceChange, gpuVars>>
       ELSE /\ lastOp' = "draw"
            /\ draw(deviceRef, contextRef, pipelineRef, gpuVertexBuffer,
                    verticesRef, prevSize)

\* The body of the effect of lines 174-191, run for the committed gridSize.
DrawEffectBody ==
    /\ effectPending' = FALSE
    /\ IF ~ReadyToDraw
       THEN /\ lastOp' = "skip"
            /\ UNCHANGED <<lastDraw, drawsSinceChange, gpuVars>>
       ELSE /\ lastOp' = "draw"
            /\ draw(deviceRef, contextRef, pipelineRef, gpuVertexBuffer,
                    verticesRef, gridSize)

(***************************************************************************)
(* setGridSize (line 90) with the re-render it causes: an equal value is   *)
(* no state change, so nothing re-renders and the effect keyed on          *)
(* [gridSize] (line 191) is not scheduled.                                 *)
(***************************************************************************)
setGridSizeNoEffect(v) ==
    IF v = gridSize
    THEN UNCHANGED <<gridSize, effectPending, drawsSinceChange, changeSawSetup>>
    ELSE /\ gridSize' = v
         /\ UNCHANGED effectPending
         /\ drawsSinceChange' = 0
         /\ changeSawSetup' = (setupPc = "done")

setGridSize(v) ==
    IF v = gridSize
    THEN UNCHANGED <<gridSize, effectPending, drawsSinceChange, changeSawSetup>>
    ELSE /\ gridSize' = v
         /\ effectPending' = TRUE
         /\ drawsSinceChange' = 0
         /\ changeSawSetup' = (setupPc = "done")

Init ==
    /\ gridSize = InitialGridSize
    /\ effectPending = TRUE
    /\ timerActive = FALSE
    /\ setupPc = "notStarted"
    /\ deviceRef = Undefined
    /\ contextRef = Undefined
    /\ pipelineRef = Undefined
    /\ vertexBufferRef = Undefined
    /\ verticesRef = Undefined
    /\ gpuVertexBuffer = <<>>
    /\ vbWrites = 0
    /\ lastDraw = NoDraw
    /\ drawsSinceChange = 0
    /\ changeSawSetup = FALSE
    /\ lastOp = "none"
    /\ prevSize = InitialGridSize

(***************************************************************************)
(* useInterval (imported at line 25 from @/utils/useSetInterval): mounting *)
(* registers a repeating timer; the timer calls the callback of the latest *)
(* render on every period and is not cancelled by the callback.            *)
(***************************************************************************)
useIntervalMount == timerActive' = TRUE

useIntervalFires == timerActive /\ timerActive' = timerActive

(***************************************************************************)
(* The effects of the first render, in declaration order: the setup effect *)
(* (lines 92-168) starts setup(), which runs up to its first await; the    *)
(* interval is registered (line 170); the draw effect runs (lines 174-191).*)
(***************************************************************************)
MountEffects ==
    /\ setupPc = "notStarted"
    /\ setupPc' = "awaitAdapter"
    /\ useIntervalMount
    /\ DrawEffectBody
    /\ UNCHANGED <<gridSize, refVars, changeSawSetup, prevSize>>

\* setup() resumes after `await navigator.gpu.requestAdapter()`, lines 94-97.
SetupAdapterResolved ==
    /\ setupPc = "awaitAdapter"
    /\ \E adapter \in BOOLEAN :
         setupPc' = IF ~adapter THEN "aborted" ELSE "awaitDevice"
    /\ UNCHANGED <<gridSize, effectPending, timerActive, refVars, gpuVars,
                   lastDraw, drawsSinceChange, changeSawSetup, lastOp, prevSize>>

\* setup() resumes after `await adapter.requestDevice()`, lines 97-165.
SetupDeviceResolved ==
    /\ setupPc = "awaitDevice"
    /\ \E device \in {"device", "rejected"}, canvas \in BOOLEAN, context \in BOOLEAN :
         IF device = "rejected"
         THEN /\ setupPc' = "aborted"
              /\ UNCHANGED <<refVars, gpuVars>>
         ELSE /\ deviceRef' = device
              /\ IF ~canvas \/ ~context
                 THEN /\ setupPc' = "aborted"
                      /\ UNCHANGED <<contextRef, pipelineRef, vertexBufferRef,
                                     verticesRef, gpuVars>>
                 ELSE /\ contextRef' = "context"
                      /\ verticesRef' = QuadVertices
                      /\ vertexBufferRef' = "Cell vertices"
                      /\ gpuVertexBuffer' = QuadVertices
                      /\ vbWrites' = vbWrites + 1
                      /\ pipelineRef' = "Cell pipeline"
                      /\ setupPc' = "done"
    /\ UNCHANGED <<gridSize, effectPending, timerActive, lastDraw,
                   drawsSinceChange, changeSawSetup, lastOp, prevSize>>

(***************************************************************************)
(* The timer callback, lines 170-172.                                      *)
(***************************************************************************)
NextSizeUnclamped(s) == s + 1

NextSizeWraps(s) == IF s + 1 > MaxGridSize THEN ResetSize ELSE s + 1

NextSize(s) == Min(s + 1, MaxGridSize)

Tick ==
    /\ useIntervalFires
    /\ ~effectPending
    /\ setGridSize(NextSize(gridSize))
    /\ lastOp' = "tick"
    /\ prevSize' = gridSize
    /\ UNCHANGED <<setupPc, refVars, gpuVars, lastDraw>>

(***************************************************************************)
(* The Restart button, lines 193-195 and 200-205.                          *)
(***************************************************************************)
clickHandler ==
    /\ setupPc # "notStarted"
    /\ ~effectPending
    /\ setGridSize(ResetSize)
    /\ lastOp' = "reset"
    /\ prevSize' = gridSize
    /\ UNCHANGED <<timerActive, setupPc, refVars, gpuVars, lastDraw>>

(***************************************************************************)
(* The draw effect of a re-render, lines 174-191.                          *)
(***************************************************************************)
DrawEffect ==
    /\ setupPc # "notStarted"
    /\ effectPending
    /\ DrawEffectBody
    /\ UNCHANGED <<gridSize, timerActive, setupPc, refVars, changeSawSetup,
                   prevSize>>

Next ==
    \/ MountEffects
    \/ SetupAdapterResolved
    \/ SetupDeviceResolved
    \/ Tick
    \/ clickHandler
    \/ DrawEffect

Spec == Init /\ [][Next]_vars

\* The timer fires for as long as it is registered and the host runs every
\* scheduled effect; the user's clicks and the platform's promises are not
\* under the program's control.
FairSpec == Spec /\ WF_vars(Tick) /\ WF_vars(DrawEffect) /\ WF_vars(MountEffects)

TypeOK ==
    /\ gridSize \in Int
    /\ effectPending \in BOOLEAN
    /\ timerActive \in BOOLEAN
    /\ setupPc \in {"notStarted", "awaitAdapter", "awaitDevice", "done", "aborted"}
    /\ lastOp \in {"none", "tick", "reset", "draw", "skip"}
    /\ drawsSinceChange \in Nat
    /\ vbWrites \in Nat

(***************************************************************************)
(* C1.  Every timer tick takes Grid Size from s to min(s + 1, 512): a tick *)
(* never decreases it, never takes it above 512, leaves 512 at 512, and    *)
(* leaves the timer registered.                                            *)
(***************************************************************************)
C1_TickClampsAt512 ==
    [][Tick => /\ IF gridSize < 512
                  THEN gridSize' = gridSize + 1
                  ELSE gridSize' = 512
               /\ gridSize' >= gridSize
               /\ gridSize' <= 512
               /\ timerActive']_vars

C1_TickAtCapWitness ==
    /\ lastOp = "tick"
    /\ prevSize = 512
    /\ gridSize = 512
    /\ timerActive

(***************************************************************************)
(* C2.  A reset performed in any reachable state leaves Grid Size at 2.    *)
(***************************************************************************)
C2_ResetGivesTwo ==
    [][clickHandler => gridSize' = 2]_vars

C2_ResetWitness ==
    /\ lastOp = "reset"
    /\ prevSize = 512
    /\ gridSize = 2
    /\ setupPc = "awaitDevice"

(***************************************************************************)
(* C3.  Grid Size is always an integer in 2..512, and only a tick or a     *)
(* reset changes it: setup steps and the draw effect leave it alone.       *)
(***************************************************************************)
C3_GridSizeRangeAndWriters ==
    /\ [](gridSize \in 2..512)
    /\ [][gridSize' # gridSize => (Tick \/ clickHandler)]_vars
    /\ [][(MountEffects \/ SetupAdapterResolved \/ SetupDeviceResolved \/ DrawEffect)
            => gridSize' = gridSize]_vars

C3_RangeWitness ==
    /\ gridSize = 512
    /\ lastOp = "draw"
    /\ setupPc = "done"
    /\ prevSize = 511

(***************************************************************************)
(* C4.  A draw issued for Grid Size g uses instance count g * g and vertex *)
(* count 6 (2 -> 4, 9 -> 81, 512 -> 262144).                               *)
(***************************************************************************)
C4_InstanceCountIsSquare ==
    lastOp = "draw" =>
        /\ lastDraw.GRID_SIZE = gridSize
        /\ lastDraw.instanceCount = gridSize * gridSize
        /\ lastDraw.vertexCount = 6
        /\ (gridSize = 2 => lastDraw.instanceCount = 4)
        /\ (gridSize = 9 => lastDraw.instanceCount = 81)
        /\ (gridSize = 512 => lastDraw.instanceCount = 262144)

C4_DrawAtCapWitness ==
    /\ lastOp = "draw"
    /\ gridSize = 512
    /\ lastDraw.instanceCount = 262144
    /\ lastDraw.vertexCount = 6

(***************************************************************************)
(* C5.  No draw is issued while any of device, context, pipeline, vertex   *)
(* buffer or vertex data is unset: an effect that runs before setup has    *)
(* completed, or after it aborted, skips the draw.                         *)
(***************************************************************************)
C5_NoDrawBeforeReady ==
    /\ [](lastDraw # NoDraw =>
            /\ deviceRef # Undefined
            /\ contextRef # Undefined
            /\ pipelineRef # Undefined
            /\ vertexBufferRef # Undefined
            /\ verticesRef # Undefined
            /\ setupPc = "done")
    /\ [][(effectPending /\ ~effectPending' /\ setupPc # "done")
            => (lastOp' = "skip" /\ lastDraw' = lastDraw
                  /\ drawsSinceChange' = drawsSinceChange)]_vars

C5_SkippedWhilePartialWitness ==
    /\ lastOp = "skip"
    /\ setupPc = "aborted"
    /\ deviceRef # Undefined
    /\ contextRef = Undefined
    /\ prevSize # gridSize
    /\ lastDraw = NoDraw

(***************************************************************************)
(* C6 as stated.  Once setup has completed, a draw is eventually issued    *)
(* whatever the Grid Size is at that moment, 512 included.                 *)
(***************************************************************************)
C6_DrawAfterSetupAnySize ==
    (setupPc = "done") ~> (lastDraw # NoDraw)

(***************************************************************************)
(* C6 amended.  Once setup has completed with Grid Size below 512, or with *)
(* the effect of a change still pending, a draw is eventually issued.      *)
(***************************************************************************)
C6_DrawAfterSetupBelowCap ==
    (setupPc = "done" /\ (gridSize < 512 \/ effectPending)) ~> (lastDraw # NoDraw)

C6_RetriedDrawWitness ==
    /\ setupPc = "done"
    /\ changeSawSetup
    /\ lastOp = "draw"
    /\ drawsSinceChange = 1
    /\ gridSize = prevSize + 1

(***************************************************************************)
(* C7.  Once setup has completed, every change of Grid Size, by a tick or  *)
(* by a reset, is followed by exactly one draw with the new Grid Size      *)
(* before the next change; a reset at 300 is followed by a draw with       *)
(* instance count 4.                                                       *)
(***************************************************************************)
C7_OneDrawPerChange ==
    /\ [](drawsSinceChange <= 1)
    /\ [](changeSawSetup /\ ~effectPending =>
            /\ drawsSinceChange = 1
            /\ lastDraw.GRID_SIZE = gridSize
            /\ lastDraw.instanceCount = gridSize * gridSize)
    /\ [][(setupPc = "done" /\ gridSize' # gridSize) =>
            /\ ~effectPending
            /\ effectPending'
            /\ drawsSinceChange' = 0]_vars
    /\ [](changeSawSetup /\ prevSize = 300 /\ gridSize = 2 /\ ~effectPending
            => lastDraw.instanceCount = 4)
    /\ ((changeSawSetup /\ effectPending) ~> (drawsSinceChange = 1))

C7_ResetAt300Witness ==
    /\ changeSawSetup
    /\ prevSize = 300
    /\ gridSize = 2
    /\ lastOp = "draw"
    /\ drawsSinceChange = 1
    /\ lastDraw.instanceCount = 4

(***************************************************************************)
(* C8.  After setup has aborted (no adapter, no device, no canvas or no    *)
(* webgpu context) no draw is ever issued and setup is never retried.      *)
(***************************************************************************)
C8_AbortedNeverDraws ==
    /\ [](setupPc = "aborted" => lastDraw = NoDraw)
    /\ [][setupPc = "aborted" =>
            /\ setupPc' = "aborted"
            /\ lastDraw' = lastDraw
            /\ lastOp' # "draw"
            /\ UNCHANGED <<refVars, gpuVars>>]_vars

C8_AbortedThenResetWitness ==
    /\ setupPc = "aborted"
    /\ deviceRef # Undefined
    /\ pipelineRef = Undefined
    /\ lastOp = "skip"
    /\ prevSize = 512
    /\ gridSize = 2

(***************************************************************************)
(* C9.  The vertex buffer is written once, by setup, with the fixed        *)
(* 12-value quad; no draw writes to it or changes the vertex data.         *)
(***************************************************************************)
C9_VertexBufferWrittenOnce ==
    /\ [](vbWrites <= 1)
    /\ [](vertexBufferRef # Undefined =>
            /\ vbWrites = 1
            /\ gpuVertexBuffer = <<-8, -8, 8, -8, 8, 8, -8, -8, 8, 8, -8, 8>>
            /\ verticesRef = gpuVertexBuffer
            /\ Len(gpuVertexBuffer) = 12)
    /\ [](vertexBufferRef = Undefined => vbWrites = 0 /\ gpuVertexBuffer = <<>>)
    /\ [][vbWrites' # vbWrites => SetupDeviceResolved]_vars
    /\ [][DrawEffect => UNCHANGED <<gpuVertexBuffer, vbWrites, verticesRef>>]_vars

C9_DrawnWithOneWriteWitness ==
    /\ lastOp = "draw"
    /\ vbWrites = 1
    /\ gridSize = 512
    /\ lastDraw.vertexBuffer = gpuVertexBuffer
    /\ Len(gpuVertexBuffer) = 12

(***************************************************************************)
(* C10.  The uniform data of a draw for Grid Size g is the pair of 32-bit  *)
(* floats (g, g): both elements are equal, decode to g, and their product  *)
(* is the instance count of the same draw.                                 *)
(***************************************************************************)
C10_UniformIsGridPair ==
    lastOp = "draw" =>
        /\ Len(lastDraw.uniformBuffer) = 2
        /\ lastDraw.uniformBuffer[1] = lastDraw.uniformBuffer[2]
        /\ FromFloat32Bits(lastDraw.uniformBuffer[1]) = gridSize
        /\ FromFloat32Bits(lastDraw.uniformBuffer[2]) = gridSize
        /\ FromFloat32Bits(lastDraw.uniformBuffer[1])
             * FromFloat32Bits(lastDraw.uniformBuffer[2]) = lastDraw.instanceCount
        /\ (gridSize = 2 => lastDraw.uniformBuffer[1] = 1073741824)
        /\ (gridSize = 3 => lastDraw.uniformBuffer[1] = 1077936128)
        /\ (gridSize = 512 => lastDraw.uniformBuffer[1] = 1140850688)

C10_UniformAtThreeWitness ==
    /\ lastOp = "draw"
    /\ gridSize = 3
    /\ lastDraw.uniformBuffer = <<1077936128, 1077936128>>
    /\ lastDraw.instanceCount = 9
====
